---- MODULE Spec2Model ----
(***************************************************************************)
(* Outreach batch pipeline of the PhD application automator: the Email and *)
(* EmailBatch records (models/email.py), BatchManager                      *)
(* (services/email/batch_manager.py), the delivery task                    *)
(* (tasks/email_tasks.py), the email routes (routes/emails.py) and the     *)
(* EmailScheduler (services/email/scheduler.py).                           *)
(*                                                                         *)
(* The store is taken as a transactional CRUD store: each BatchManager     *)
(* method and each route handler is one committed transaction, hence one   *)
(* action (the read-modify-write of sent_count included).  Rows are        *)
(* modelled at the level of the handlers' own logic: a status is the       *)
(* string the code assigns, and column constraints that a caller does not  *)
(* satisfy (NOT NULL columns, the Enum mapping) are not modelled.          *)
(* Timestamps are integer clock readings (0 stands for None); scheduler    *)
(* times are minutes since midnight of day 0.  The Application rows that   *)
(* mark_email_sent also updates are left out.                              *)
(***************************************************************************)
EXTENDS Integers, Sequences, FiniteSets, TLC

\* ---------------------------------------------------------------- bounds
MaxEmails == 2
MaxBatches == 2
MaxBatchSize == 2
NumWorkers == 2
MaxTime == 2
MaxSends == 3
MaxRetryCount == 4
MaxSentCount == 3
MaxHistory == 1
MaxSchedBatch == 3
MaxUserInterests == 4
MaxProfInterests == 1
MaxCandidates == 2
MaxCalls == 2

\* ------------------------------------------------------ program constants
DefaultMaxRetries == 3
DefaultSendRate == 50

None == 0
Workers == 1..NumWorkers

\* EmailStatus values (models/email.py)
EmailStatus ==
  {"draft", "pending_approval", "approved", "scheduled", "sending", "sent",
   "delivered", "opened", "replied", "failed", "bounced", "rejected"}

VARIABLES
  batches,      \* email_batches table: id -> EmailBatch row
  emails,       \* emails table: id -> Email row
  nextBatchId,  \* autoincrement primary key of email_batches
  nextEmailId,  \* autoincrement primary key of emails
  task,         \* per worker: the running send_email_batch_task, or idle
  transport,    \* per email id: log of the smtp.send_email calls for it
  now,          \* clock read by datetime.utcnow()
  sched,        \* the running EmailScheduler call and its locals
  match,        \* the last call of a match scorer: its arguments and result
  reply         \* the last BatchManager call whose return value a caller kept

vars ==
  <<batches, emails, nextBatchId, nextEmailId, task, transport, now, sched,
    match, reply>>

\* ------------------------------------------------------------- rows
\* A new EmailBatch row with the column defaults of models/email.py.
NewBatchRow(total, st) ==
  [status |-> st, total_count |-> total, draft_count |-> 0,
   approved_count |-> 0, sent_count |-> 0, delivered_count |-> 0,
   opened_count |-> 0, replied_count |-> 0, failed_count |-> 0,
   send_rate |-> DefaultSendRate]

\* A new Email row with the column defaults of models/email.py.
NewEmailRow(b, st, send_time) ==
  [batch_id |-> b, status |-> st, status_history |-> <<>>,
   scheduled_time |-> send_time, sent_at |-> None, delivered_at |-> None,
   opened_at |-> None, last_opened_at |-> None, replied_at |-> None,
   open_count |-> 0, retry_count |-> 0, max_retries |-> DefaultMaxRetries,
   error_message |-> FALSE, last_error |-> None, approved_at |-> None,
   body |-> 0]

IdleTask == [pc |-> "idle", emails |-> <<>>, success |-> FALSE]

\* Ascending sequence of the elements of a finite set of integers.
RECURSIVE SortedSeq(_)
SortedSeq(S) ==
  IF S = {} THEN <<>>
  ELSE LET m == CHOOSE x \in S : \A y \in S : x <= y
       IN <<m>> \o SortedSeq(S \ {m})

\* BatchManager.get_batch_emails(batch_id, status)
get_batch_emails_AnyStatus(b, st) ==
  {e \in DOMAIN emails : emails[e].batch_id = b}

get_batch_emails(b, st) ==
  {e \in DOMAIN emails : emails[e].batch_id = b /\ emails[e].status = st}

\* Email.query.filter_by(batch_id=b): the messages that belong to batch b
BatchEmails(b) == {e \in DOMAIN emails : emails[e].batch_id = b}

\* the `email.batch` relationship: the batch row of the email, if any
HasBatch(e) == emails[e].batch_id \in DOMAIN batches

\* No scheduler call has been made yet.
SchedIdle ==
  [pc |-> "idle", send_rate |-> 0, batch_size |-> 0, interval_minutes |-> 0,
   i |-> 0, current_time |-> 0, scheduled_times |-> <<>>, jumps |-> 0,
   candidate |-> 0]

\* No return value has been kept yet; n counts the calls that kept one.
NoReply == [op |-> "none", id |-> 0, result |-> FALSE, n |-> 0]

\* No match scorer has been called yet.  The scorers read nothing that an
\* earlier call wrote.
MatchIdle == [op |-> "none"]

Init ==
  /\ batches = <<>>
  /\ emails = <<>>
  /\ nextBatchId = 1
  /\ nextEmailId = 1
  /\ task = [w \in Workers |-> IdleTask]
  /\ transport = [e \in 1..MaxEmails |-> <<>>]
  /\ now = 1
  /\ sched = SchedIdle
  /\ match = MatchIdle
  /\ reply = NoReply

\* ---------------------------------------------------------- BatchManager
\* BatchManager.create_batch(user_id, emails) with len(emails) = n
CreateBatch(n) ==
  /\ nextBatchId <= MaxBatches
  /\ nextEmailId + n - 1 <= MaxEmails
  /\ batches' = [b \in DOMAIN batches \cup {nextBatchId} |->
                   IF b = nextBatchId THEN NewBatchRow(n, "draft")
                   ELSE batches[b]]
  /\ emails' = [e \in DOMAIN emails \cup (nextEmailId..(nextEmailId + n - 1)) |->
                   IF e >= nextEmailId
                   THEN NewEmailRow(nextBatchId, "draft", None)
                   ELSE emails[e]]
  /\ nextBatchId' = nextBatchId + 1
  /\ nextEmailId' = nextEmailId + n
  /\ UNCHANGED <<task, transport, now, sched, match, reply>>

\* The return value of BatchManager.approve_batch(batch_id)
approve_batch_result(b) == b \in DOMAIN batches /\ batches[b].status = "draft"

\* The rows after a BatchManager.approve_batch(batch_id) that returns True
ApproveBatchBatches(b) == [batches EXCEPT ![b].status = "approved"]

ApproveBatchEmails(b) ==
  [e \in DOMAIN emails |->
     IF e \in get_batch_emails(b, "draft")
     THEN [emails[e] EXCEPT !.status = "approved"]
     ELSE emails[e]]

\* BatchManager.approve_batch(batch_id), returning True
ApproveBatch(b) ==
  /\ approve_batch_result(b)
  /\ batches' = ApproveBatchBatches(b)
  /\ emails' = ApproveBatchEmails(b)
  /\ UNCHANGED <<nextBatchId, nextEmailId, task, transport, now, sched, match, reply>>

\* The rows after BatchManager.mark_email_sent(email_id)
MarkSentEmails(e) ==
  IF e \in DOMAIN emails
  THEN [emails EXCEPT ![e].status = "sent", ![e].sent_at = now]
  ELSE emails

MarkSentBatches(e) ==
  IF e \in DOMAIN emails /\ HasBatch(e)
  THEN LET b == emails[e].batch_id
           n == batches[b].sent_count + 1
       IN [batches EXCEPT ![b].sent_count = n,
                          ![b].status = IF n >= batches[b].total_count
                                        THEN "completed" ELSE @]
  ELSE batches

\* Bound of the model on the sent_count that mark_email_sent increments
SentCountBelowCap(e) ==
  (e \in DOMAIN emails /\ HasBatch(e)) =>
     batches[emails[e].batch_id].sent_count < MaxSentCount

\* The rows after BatchManager.mark_email_failed(email_id, error_message)
MarkFailedEmails(e) ==
  IF e \in DOMAIN emails
  THEN [emails EXCEPT ![e].status = "failed", ![e].error_message = TRUE,
                      ![e].retry_count = @ + 1]
  ELSE emails

\* ------------------------------------------------- send_email_batch_task
\* Task start: emails = batch_manager.get_batch_emails(batch_id, 'approved')
TaskStart(w, b) ==
  /\ task[w].pc = "idle"
  /\ LET sel == SortedSeq(get_batch_emails(b, "approved"))
     IN task' = [task EXCEPT ![w] =
                   IF sel = <<>> THEN IdleTask
                   ELSE [pc |-> "send", emails |-> sel, success |-> FALSE]]
  /\ UNCHANGED <<batches, emails, nextBatchId, nextEmailId, transport, now, sched, match, reply>>

\* Loop body, first half: smtp.send_email(...) for the next selected email.
\* The row of a deleted email cannot be loaded: the task ends in its handler.
TaskSend(w, ok) ==
  /\ task[w].pc = "send"
  /\ LET e == Head(task[w].emails)
     IN IF e \in DOMAIN emails
        THEN /\ Len(transport[e]) < MaxSends
             /\ transport' = [transport EXCEPT ![e] = Append(@,
                    [worker |-> w, at |-> now, ok |-> ok,
                     scheduled_time |-> emails[e].scheduled_time])]
             /\ task' = [task EXCEPT ![w].pc = "mark", ![w].success = ok]
        ELSE /\ ok
             /\ task' = [task EXCEPT ![w] = IdleTask]
             /\ UNCHANGED transport
  /\ UNCHANGED <<batches, emails, nextBatchId, nextEmailId, now, sched, match, reply>>

\* Loop body, second half: mark_email_sent / mark_email_failed, next email.
TaskMark(w) ==
  /\ task[w].pc = "mark"
  /\ LET e == Head(task[w].emails)
         rest == Tail(task[w].emails)
     IN /\ IF task[w].success
           THEN /\ SentCountBelowCap(e)
                /\ emails' = MarkSentEmails(e)
                /\ batches' = MarkSentBatches(e)
           ELSE /\ e \in DOMAIN emails => emails[e].retry_count < MaxRetryCount
                /\ emails' = MarkFailedEmails(e)
                /\ UNCHANGED batches
        /\ task' = [task EXCEPT ![w] =
                      IF rest = <<>> THEN IdleTask
                      ELSE [pc |-> "send", emails |-> rest, success |-> FALSE]]
  /\ UNCHANGED <<nextBatchId, nextEmailId, transport, now, sched, match, reply>>

\* The clock advances.
Tick ==
  /\ now < MaxTime
  /\ now' = now + 1
  /\ UNCHANGED <<batches, emails, nextBatchId, nextEmailId, task, transport, sched, match, reply>>

\* ------------------------------------------------------------ Email model
\* The row after Email.update_status(new_status, notes)
update_status(row, s) ==
  LET r == [row EXCEPT !.status = s,
                       !.status_history = Append(@,
                           [from_status |-> row.status, to_status |-> s,
                            timestamp |-> now])]
  IN CASE s = "sent" -> [r EXCEPT !.sent_at = now]
       [] s = "delivered" -> [r EXCEPT !.delivered_at = now]
       [] s = "opened" ->
            [r EXCEPT !.opened_at = IF @ = None THEN now ELSE @,
                      !.last_opened_at = now, !.open_count = @ + 1]
       [] s = "replied" -> [r EXCEPT !.replied_at = now]
       [] OTHER -> r

\* Email.update_status(new_status) on email e
UpdateStatus(e, s) ==
  /\ e \in DOMAIN emails
  /\ Len(emails[e].status_history) < MaxHistory
  /\ emails' = [emails EXCEPT ![e] = update_status(@, s)]
  /\ UNCHANGED <<batches, nextBatchId, nextEmailId, task, transport, now, sched, match, reply>>

\* Email.approve(user_id)
Approve(e) ==
  /\ e \in DOMAIN emails
  /\ Len(emails[e].status_history) < MaxHistory
  /\ emails' = [emails EXCEPT ![e] =
                  update_status([@ EXCEPT !.approved_at = now], "approved")]
  /\ UNCHANGED <<batches, nextBatchId, nextEmailId, task, transport, now, sched, match, reply>>

\* Email.schedule(send_time)
Schedule(e, t) ==
  /\ e \in DOMAIN emails
  /\ Len(emails[e].status_history) < MaxHistory
  /\ emails' = [emails EXCEPT ![e] =
                  update_status([@ EXCEPT !.scheduled_time = t], "scheduled")]
  /\ UNCHANGED <<batches, nextBatchId, nextEmailId, task, transport, now, sched, match, reply>>

\* Email.mark_failed(error_message, error_code)
MarkFailed(e) ==
  /\ e \in DOMAIN emails
  /\ Len(emails[e].status_history) < MaxHistory
  /\ emails[e].retry_count < MaxRetryCount
  /\ emails' = [emails EXCEPT ![e] =
                  update_status([@ EXCEPT !.error_message = TRUE,
                                          !.last_error = now,
                                          !.retry_count = @ + 1], "failed")]
  /\ UNCHANGED <<batches, nextBatchId, nextEmailId, task, transport, now, sched, match, reply>>

\* The batch row after EmailBatch.update_counts(session)
CountIn(b, S) == Cardinality({e \in BatchEmails(b) : emails[e].status \in S})

update_counts(b) ==
  [batches[b] EXCEPT
     !.total_count = CountIn(b, EmailStatus),
     !.draft_count = CountIn(b, {"draft"}),
     !.approved_count = CountIn(b, {"approved"}),
     !.sent_count = CountIn(b, {"sent"}),
     !.delivered_count = CountIn(b, {"delivered"}),
     !.opened_count = CountIn(b, {"opened"}),
     !.replied_count = CountIn(b, {"replied"}),
     !.failed_count = CountIn(b, {"failed", "bounced"})]

\* EmailBatch.update_counts on batch b
UpdateCounts(b) ==
  /\ b \in DOMAIN batches
  /\ batches' = [batches EXCEPT ![b] = update_counts(b)]
  /\ UNCHANGED <<emails, nextBatchId, nextEmailId, task, transport, now, sched, match, reply>>

\* ------------------------------------------- BatchManager, called directly
\* BatchManager.mark_email_sent(email_id), any id
MarkEmailSent(e) ==
  /\ SentCountBelowCap(e)
  /\ emails' = MarkSentEmails(e)
  /\ batches' = MarkSentBatches(e)
  /\ UNCHANGED <<nextBatchId, nextEmailId, task, transport, now, sched, match, reply>>

\* BatchManager.mark_email_failed(email_id, error_message), any id
MarkEmailFailed(e) ==
  /\ e \in DOMAIN emails => emails[e].retry_count < MaxRetryCount
  /\ emails' = MarkFailedEmails(e)
  /\ UNCHANGED <<batches, nextBatchId, nextEmailId, task, transport, now, sched, match, reply>>

\* The return value of mark_email_sent(email_id) / mark_email_failed(email_id)
mark_email_result_AlwaysTrue(e) == TRUE

mark_email_result(e) == e \in DOMAIN emails

\* approve_batch(batch_id) for any id, by a caller that keeps the return value
CallApproveBatch(b) ==
  /\ reply.n < MaxCalls
  /\ reply' = [op |-> "approve_batch", id |-> b,
               result |-> approve_batch_result(b), n |-> reply.n + 1]
  /\ IF approve_batch_result(b)
     THEN /\ batches' = ApproveBatchBatches(b)
          /\ emails' = ApproveBatchEmails(b)
     ELSE UNCHANGED <<batches, emails>>
  /\ UNCHANGED <<nextBatchId, nextEmailId, task, transport, now, sched, match>>

\* mark_email_sent(email_id) for any id, by a caller that keeps the return
\* value
CallMarkEmailSent(e) ==
  /\ SentCountBelowCap(e)
  /\ reply.n < MaxCalls
  /\ reply' = [op |-> "mark_email_sent", id |-> e,
               result |-> mark_email_result(e), n |-> reply.n + 1]
  /\ emails' = MarkSentEmails(e)
  /\ batches' = MarkSentBatches(e)
  /\ UNCHANGED <<nextBatchId, nextEmailId, task, transport, now, sched, match>>

\* mark_email_failed(email_id, error_message) for any id, by a caller that
\* keeps the return value
CallMarkEmailFailed(e) ==
  /\ e \in DOMAIN emails => emails[e].retry_count < MaxRetryCount
  /\ reply.n < MaxCalls
  /\ reply' = [op |-> "mark_email_failed", id |-> e,
               result |-> mark_email_result(e), n |-> reply.n + 1]
  /\ emails' = MarkFailedEmails(e)
  /\ UNCHANGED <<batches, nextBatchId, nextEmailId, task, transport, now,
                 sched, match>>

\* ------------------------------------------------------- routes/emails.py
\* POST /emails: create_email with batch_id b (None when absent), the
\* status and the scheduled_time of the request
CreateEmail(b, st, t) ==
  /\ nextEmailId <= MaxEmails
  /\ emails' = [e \in DOMAIN emails \cup {nextEmailId} |->
                  IF e = nextEmailId THEN NewEmailRow(b, st, t)
                  ELSE emails[e]]
  /\ nextEmailId' = nextEmailId + 1
  /\ UNCHANGED <<batches, nextBatchId, task, transport, now, sched, match, reply>>

\* PUT /emails/<id>: update_email; a field that the request leaves out
\* keeps its value (st = "keep", t = -1, body = -1)
UpdateEmail(e, st, t, body) ==
  /\ e \in DOMAIN emails
  /\ emails' = [emails EXCEPT
        ![e].status = IF st = "keep" THEN @ ELSE st,
        ![e].scheduled_time = IF t = -1 THEN @ ELSE t,
        ![e].body = IF body = -1 THEN @ ELSE body]
  /\ UNCHANGED <<batches, nextBatchId, nextEmailId, task, transport, now, sched, match, reply>>

\* DELETE /emails/<id>: delete_email
DeleteEmail(e) ==
  /\ e \in DOMAIN emails
  /\ emails' = [x \in DOMAIN emails \ {e} |-> emails[x]]
  /\ UNCHANGED <<batches, nextBatchId, nextEmailId, task, transport, now, sched, match, reply>>

\* POST /emails/batches: create_email_batch, a batch without emails
CreateEmailBatch(st) ==
  /\ nextBatchId <= MaxBatches
  /\ batches' = [b \in DOMAIN batches \cup {nextBatchId} |->
                   IF b = nextBatchId THEN NewBatchRow(0, st)
                   ELSE batches[b]]
  /\ nextBatchId' = nextBatchId + 1
  /\ UNCHANGED <<emails, nextEmailId, task, transport, now, sched, match, reply>>

\* PUT /emails/batches/<id>: update_email_batch with a status field
UpdateEmailBatch(b, st) ==
  /\ b \in DOMAIN batches
  /\ batches' = [batches EXCEPT ![b].status = st]
  /\ UNCHANGED <<emails, nextBatchId, nextEmailId, task, transport, now, sched, match, reply>>

\* DELETE /emails/batches/<id>: delete_email_batch; the emails table has no
\* cascade on batch_id, the rows of the batch's emails stay
DeleteEmailBatch(b) ==
  /\ b \in DOMAIN batches
  /\ batches' = [x \in DOMAIN batches \ {b} |-> batches[x]]
  /\ UNCHANGED <<emails, nextBatchId, nextEmailId, task, transport, now, sched, match, reply>>

\* --------------------------------------------------------- EmailScheduler
\* EmailScheduler.OPTIMAL_HOURS = list(range(9, 18))
OPTIMAL_HOURS == 9..17

MinutesPerDay == 1440
Hour(t) == (t \div 60) % 24
\* t.replace(hour=h, minute=0, second=0, microsecond=0)
AtHour(t, h) == (t \div MinutesPerDay) * MinutesPerDay + h * 60

\* EmailScheduler.schedule_email(timezone, preferred_hour) when the local
\* time is c; preferred_hour = -1 stands for None
schedule_email(c, preferred_hour) ==
  IF preferred_hour \notin {-1, 0} /\ preferred_hour \in OPTIMAL_HOURS
  THEN LET scheduled == AtHour(c, preferred_hour)
       IN IF scheduled <= c THEN scheduled + MinutesPerDay ELSE scheduled
  ELSE IF Hour(c) \in OPTIMAL_HOURS THEN c + 1
  ELSE IF Hour(c) < 9 THEN AtHour(c, 9)
  ELSE AtHour(c + MinutesPerDay, 9)

\* A caller asks for one send time: schedule_email at local time c
ScheduleEmail(c, preferred_hour) ==
  /\ sched.pc \in {"idle", "done"}
  /\ sched' = [SchedIdle EXCEPT !.pc = "done", !.candidate = c,
                 !.scheduled_times = <<schedule_email(c, preferred_hour)>>]
  /\ UNCHANGED <<batches, emails, nextBatchId, nextEmailId, task, transport, now, match, reply>>

\* EmailScheduler.schedule_batch(batch_size, interval_minutes, timezone,
\* start_time) is entered for a batch whose send_rate is H; start = -1
\* stands for None and c is the local time then read by schedule_email
ScheduleBatch(H, n, iv, start, c) ==
  /\ sched.pc \in {"idle", "done"}
  /\ start = -1 \/ c = 0
  /\ sched' = [SchedIdle EXCEPT
        !.pc = "loop", !.send_rate = H, !.batch_size = n,
        !.interval_minutes = iv,
        !.candidate = IF start = -1 THEN c ELSE start,
        !.current_time = IF start = -1 THEN schedule_email(c, -1) ELSE start]
  /\ UNCHANGED <<batches, emails, nextBatchId, nextEmailId, task, transport, now, match, reply>>

SchedAppend_NoInterval ==
  /\ sched.pc = "loop"
  /\ sched.i < sched.batch_size
  /\ sched' = [sched EXCEPT
        !.scheduled_times = Append(@, sched.current_time),
        !.candidate = sched.current_time,
        !.i = @ + 1, !.jumps = 0, !.pc = "skip"]
  /\ UNCHANGED <<batches, emails, nextBatchId, nextEmailId, task, transport, now, match, reply>>

\* for i in range(batch_size): append current_time, add the interval
SchedAppend ==
  /\ sched.pc = "loop"
  /\ sched.i < sched.batch_size
  /\ sched' = [sched EXCEPT
        !.scheduled_times = Append(@, sched.current_time),
        !.candidate = sched.current_time + sched.interval_minutes,
        !.current_time = @ + sched.interval_minutes,
        !.i = @ + 1, !.jumps = 0, !.pc = "skip"]
  /\ UNCHANGED <<batches, emails, nextBatchId, nextEmailId, task, transport, now, match, reply>>

\* while current_time.hour not in OPTIMAL_HOURS: move to next day's 9 AM
SchedSkip ==
  /\ sched.pc = "skip"
  /\ sched' = IF Hour(sched.current_time) \notin OPTIMAL_HOURS
              THEN [sched EXCEPT
                      !.current_time = AtHour(@ + MinutesPerDay, 9),
                      !.jumps = @ + 1]
              ELSE [sched EXCEPT !.pc = "loop"]
  /\ UNCHANGED <<batches, emails, nextBatchId, nextEmailId, task, transport, now, match, reply>>

SchedReturn_Early ==
  /\ sched.pc = "loop"
  /\ sched' = [sched EXCEPT !.pc = "done"]
  /\ UNCHANGED <<batches, emails, nextBatchId, nextEmailId, task, transport, now, match, reply>>

\* return scheduled_times
SchedReturn ==
  /\ sched.pc = "loop"
  /\ sched.i = sched.batch_size
  /\ sched' = [sched EXCEPT !.pc = "done"]
  /\ UNCHANGED <<batches, emails, nextBatchId, nextEmailId, task, transport, now, match, reply>>

\* ------------------------------------------------------------ match scorers
\* Scores are kept in hundredths of a point (round(score, 2) of
\* _fallback_matching has two decimals).
ScoreUnit == 100

Min(a, b) == IF a <= b THEN a ELSE b
Max(a, b) == IF a >= b THEN a ELSE b

\* An interest is a string, a sequence of characters; a list of interests
\* that is None is marked as not present.
Absent == [present |-> FALSE, items |-> <<>>]
Present(items) == [present |-> TRUE, items |-> items]

\* Python truth value of a list argument: None and [] are false
Truthy(x) == x.present /\ x.items # <<>>

\* str.lower()
lower(s) == [k \in DOMAIN s |-> IF s[k] = "A" THEN "a" ELSE s[k]]

\* str.strip()
RECURSIVE strip(_)
strip(s) ==
  IF s = <<>> THEN s
  ELSE IF Head(s) = " " THEN strip(Tail(s))
  ELSE IF s[Len(s)] = " " THEN strip(SubSeq(s, 1, Len(s) - 1))
  ELSE s

\* Python `s in t` for strings
IsSubstring(s, t) ==
  \E k \in 0..(Len(t) - Len(s)) : SubSeq(t, k + 1, k + Len(s)) = s

\* the list `matches`: the areas of us that contain, or are contained in,
\* some area of ps (one entry per area of us, first hit breaks)
ContainmentMatches(us, ps) ==
  SelectSeq(us, LAMBDA u :
    \E j \in DOMAIN ps : IsSubstring(u, ps[j]) \/ IsSubstring(ps[j], u))

\* [area.lower().strip() for area in items]
LowerStripAll(items) == [k \in DOMAIN items |-> strip(lower(items[k]))]

\* [p.lower() for p in items]
LowerAll(items) == [k \in DOMAIN items |-> lower(items[k])]

\* Professor.calculate_match_score(user_interests), in points; prof has the
\* columns research_interests, h_index, total_citations, accepting_students
\* and recent_publications (given by its length; 0 for None or [])
professor_points(prof, user_interests) ==
  LET matches ==
        IF Truthy(prof.research_interests) /\ Truthy(user_interests)
        THEN ContainmentMatches(LowerStripAll(user_interests.items),
               LowerStripAll(prof.research_interests.items))
        ELSE <<>>
      overlap == IF matches # <<>> THEN Min(Len(matches) * 13, 40) ELSE 0
      h == IF prof.h_index >= 50 THEN 15
           ELSE IF prof.h_index >= 30 THEN 10
           ELSE IF prof.h_index >= 15 THEN 5 ELSE 0
      c == IF prof.total_citations >= 10000 THEN 15
           ELSE IF prof.total_citations >= 5000 THEN 10
           ELSE IF prof.total_citations >= 1000 THEN 5 ELSE 0
      p == IF prof.recent_publications >= 10 THEN 15
           ELSE IF prof.recent_publications >= 5 THEN 10
           ELSE IF prof.recent_publications >= 2 THEN 5 ELSE 0
      a == IF prof.accepting_students THEN 15 ELSE 0
  IN Min(overlap + h + c + p + a, 100)

\* set([i.lower() for i in interests])
LowerSet(items) == {lower(items[k]) : k \in DOMAIN items}

\* MatchingEngine._fallback_matching: iterating None raises and the handler
\* answers 50.0; otherwise round(overlap / total * 100, 2)
fallback_matching(user_interests, professor_interests) ==
  IF ~user_interests.present \/ ~professor_interests.present
  THEN [returned |-> "dict", has_score |-> TRUE, score |-> 50 * ScoreUnit]
  ELSE LET user_set == LowerSet(user_interests.items)
           prof_set == LowerSet(professor_interests.items)
           overlap_count == Cardinality(user_set \cap prof_set)
           total == Cardinality(user_set \cup prof_set)
       IN [returned |-> "dict", has_score |-> TRUE,
           score |-> IF total > 0
                     THEN (2 * overlap_count * 100 * ScoreUnit + total)
                            \div (2 * total)
                     ELSE 0]

ClampScore_Unclamped(s) == s

\* max(0, min(100, result['score']))
ClampScore(s) == Max(0, Min(100, s))

\* MatchingEngine.calculate_match_score, given what gemini.generate_text
\* does: it raises, returns nothing, returns text that is not JSON, or
\* returns JSON (an array, an object without 'score', an object whose
\* 'score' is not a number, an object with a numeric 'score')
calculate_match_score(user_interests, professor_interests, response) ==
  CASE response.kind \in {"raise", "invalid_json", "json_bad_score"} ->
         fallback_matching(user_interests, professor_interests)
    [] response.kind = "empty" ->
         [returned |-> "None", has_score |-> FALSE, score |-> 0]
    [] response.kind = "json_array" ->
         [returned |-> "list", has_score |-> FALSE, score |-> 0]
    [] response.kind = "json_no_score" ->
         [returned |-> "dict", has_score |-> FALSE, score |-> 0]
    [] response.kind = "json_score" ->
         [returned |-> "dict", has_score |-> TRUE,
          score |-> ClampScore(response.score) * ScoreUnit]

\* GeminiService._simple_keyword_match, in points
simple_keyword_match(prof_interests, user_interests) ==
  LET matches == ContainmentMatches(LowerAll(user_interests.items),
                                    LowerAll(prof_interests.items))
  IN Min(Len(matches) * 25, 100)

\* GeminiService.calculate_research_match, in points, given what the model
\* call does: it raises, or its text has a SCORE line with a number, a
\* SCORE line without one, or no SCORE line
calculate_research_match(professor_interests, user_interests, response) ==
  IF ~Truthy(professor_interests) \/ ~Truthy(user_interests) THEN 0
  ELSE CASE response.kind = "raise" ->
              simple_keyword_match(professor_interests, user_interests)
         [] response.kind = "text_score" -> Min(Max(response.score, 0), 100)
         [] response.kind = "text_bad_score" -> Min(Max(50, 0), 100)
         [] response.kind = "text_no_score" -> Min(Max(0, 0), 100)

\* ranked.sort(key=match_score, reverse=True): a stable sort, equal scores
\* keep the order in which they were appended
RECURSIVE InsertByScore(_, _)
InsertByScore(x, s) ==
  IF s = <<>> THEN <<x>>
  ELSE IF Head(s).match_score >= x.match_score
       THEN <<Head(s)>> \o InsertByScore(x, Tail(s))
       ELSE <<x>> \o s

RECURSIVE SortByScore(_)
SortByScore(s) ==
  IF s = <<>> THEN s
  ELSE InsertByScore(s[Len(s)], SortByScore(SubSeq(s, 1, Len(s) - 1)))

\* MatchingEngine.rank_professors(user_interests, professors) when the k-th
\* generate_text call behaves as responses[k].  A result that is a JSON
\* array has no .get: the handler returns the list as it was passed, the
\* professors before the failing one already carrying their score.
rank_professors(user_interests, professors, responses) ==
  LET result(k) == calculate_match_score(user_interests,
                     professors[k].research_interests, responses[k])
      scored(k) ==
        [id |-> professors[k].id, annotated |-> TRUE,
         match_score |-> IF result(k).returned = "dict" /\ result(k).has_score
                         THEN result(k).score ELSE 0]
      raising == {k \in DOMAIN professors : result(k).returned = "list"}
  IN IF raising = {}
     THEN SortByScore([k \in DOMAIN professors |-> scored(k)])
     ELSE LET first == CHOOSE k \in raising : \A j \in raising : k <= j
          IN [k \in DOMAIN professors |->
                IF k < first THEN scored(k)
                ELSE [id |-> professors[k].id, annotated |-> FALSE,
                      match_score |-> 0]]

\* -------------------------------------------------------- specifications
BatchStatus == {"draft", "approved", "sending", "completed", "cancelled"}
SchedTimes == 1..(MaxTime + 1)
StatusInputs == {"draft", "pending_approval", "approved", "sent", "opened", "failed"}

\* The delivery pipeline: batches are created, approved, scheduled,
\* cancelled and sent by concurrent runs of the delivery task.
Next ==
  \/ \E n \in 0..MaxBatchSize : CreateBatch(n)
  \/ \E b \in 1..MaxBatches : ApproveBatch(b)
  \/ \E w \in Workers, b \in 1..MaxBatches : TaskStart(w, b)
  \/ \E w \in Workers, ok \in BOOLEAN : TaskSend(w, ok)
  \/ \E w \in Workers : TaskMark(w)
  \/ \E b \in 1..MaxBatches : UpdateEmailBatch(b, "cancelled")

Spec == Init /\ [][Next]_vars

\* One run at a time of the delivery task, with the clock and Email.schedule.
TimedNext ==
  \/ \E n \in 0..MaxBatchSize : CreateBatch(n)
  \/ \E b \in 1..MaxBatches : ApproveBatch(b)
  \/ \E b \in 1..MaxBatches : TaskStart(1, b)
  \/ \E ok \in BOOLEAN : TaskSend(1, ok)
  \/ TaskMark(1)
  \/ \E e \in 1..MaxEmails, t \in SchedTimes : Schedule(e, t)
  \/ Tick

TimedSpec == Init /\ [][TimedNext]_vars

\* The record store: BatchManager and the email routes, called in any order.
CrudNext ==
  \/ \E n \in 0..MaxBatchSize : CreateBatch(n)
  \/ \E b \in 1..MaxBatches : ApproveBatch(b)
  \/ \E e \in 1..MaxEmails : MarkEmailSent(e)
  \/ \E e \in 1..MaxEmails : MarkEmailFailed(e)
  \/ \E b \in 1..MaxBatches : UpdateCounts(b)
  \/ \E e \in 1..MaxEmails : DeleteEmail(e)
  \/ \E b \in 0..MaxBatches, st \in {"draft", "approved"} : CreateEmail(b, st, None)

CrudSpec == Init /\ [][CrudNext]_vars

\* The message state machine: the Email methods and the BatchManager marks.
ModelNext ==
  \/ \E n \in 0..MaxBatchSize : CreateBatch(n)
  \/ \E b \in 1..MaxBatches : ApproveBatch(b)
  \/ \E e \in 1..MaxEmails, s \in StatusInputs : UpdateStatus(e, s)
  \/ \E e \in 1..MaxEmails : Approve(e)
  \/ \E e \in 1..MaxEmails : Schedule(e, MaxTime + 1)
  \/ \E e \in 1..MaxEmails : MarkFailed(e)
  \/ \E e \in 1..MaxEmails : MarkEmailSent(e)

ModelSpec == Init /\ [][ModelNext]_vars

\* Delivery with re-approval: message 1 is put back to 'approved' through
\* PUT /emails/1 and picked up by a later or a concurrent run.
ResendNext ==
  \/ \E n \in 0..MaxBatchSize : CreateBatch(n)
  \/ \E b \in 1..MaxBatches : ApproveBatch(b)
  \/ \E w \in Workers, b \in 1..MaxBatches : TaskStart(w, b)
  \/ \E w \in Workers, ok \in BOOLEAN : TaskSend(w, ok)
  \/ \E w \in Workers : TaskMark(w)
  \/ UpdateEmail(1, "approved", -1, -1)

ResendSpec == Init /\ [][ResendNext]_vars

\* Approval and delivery: batches are approved as a whole, message 1 on its
\* own through PUT /emails/1, and one run of the delivery task sends.
ApprovalNext ==
  \/ \E n \in 0..MaxBatchSize : CreateBatch(n)
  \/ \E b \in 1..MaxBatches : ApproveBatch(b)
  \/ UpdateEmail(1, "approved", -1, -1)
  \/ \E b \in 1..MaxBatches : TaskStart(1, b)
  \/ \E ok \in BOOLEAN : TaskSend(1, ok)
  \/ TaskMark(1)

ApprovalSpec == Init /\ [][ApprovalNext]_vars

\* The email routes: messages are edited and deleted, batches are created
\* and deleted, next to BatchManager's creation and approval.
BodyInputs == {-1, 1}
RouteNext ==
  \/ \E n \in 0..MaxBatchSize : CreateBatch(n)
  \/ \E b \in 1..MaxBatches : ApproveBatch(b)
  \/ \E st \in {"draft", "approved"} : CreateEmailBatch(st)
  \/ \E e \in 1..MaxEmails, st \in {"keep", "approved", "sent"}, body \in BodyInputs :
        UpdateEmail(e, st, -1, body)
  \/ \E e \in 1..MaxEmails : DeleteEmail(e)
  \/ \E b \in 1..MaxBatches : DeleteEmailBatch(b)

RouteSpec == Init /\ [][RouteNext]_vars

\* Delivery of messages that a caller may put into 'sending'; a run of the
\* delivery task that has started is carried on to its end by its worker.
SendingNext ==
  \/ \E n \in 0..MaxBatchSize : CreateBatch(n)
  \/ \E b \in 1..MaxBatches : ApproveBatch(b)
  \/ \E e \in 1..MaxEmails : UpdateStatus(e, "sending")
  \/ \E w \in Workers, b \in 1..MaxBatches : TaskStart(w, b)
  \/ \E w \in Workers, ok \in BOOLEAN : TaskSend(w, ok)
  \/ \E w \in Workers : TaskMark(w)

SendingSpec ==
  /\ Init
  /\ [][SendingNext]_vars
  /\ \A w \in Workers :
       /\ WF_vars(\E b \in 1..MaxBatches : TaskStart(w, b))
       /\ WF_vars(\E ok \in BOOLEAN : TaskSend(w, ok))
       /\ WF_vars(TaskMark(w))

\* BatchManager called with any ids, known or not, the return values kept.
ManagerNext ==
  \/ \E n \in 0..MaxBatchSize : CreateBatch(n)
  \/ \E b \in 1..MaxBatches : CallApproveBatch(b)
  \/ \E e \in 1..MaxEmails : CallMarkEmailSent(e)
  \/ \E e \in 1..MaxEmails : CallMarkEmailFailed(e)

ManagerSpec == Init /\ [][ManagerNext]_vars

\* The scheduler: calls of schedule_email and schedule_batch.
TimesOfDay == {0, 8 * 60 + 59, 9 * 60, 12 * 60, 17 * 60 + 59, 18 * 60, 23 * 60 + 59}
IntervalInputs == {0, 2, 30, 60, 9 * 60}
SendRates == {1, 2, DefaultSendRate}
PreferredHours == {-1, 0, 9, 17, 18}

SchedNext ==
  \/ \E c \in TimesOfDay, ph \in PreferredHours : ScheduleEmail(c, ph)
  \/ \E H \in SendRates, n \in 0..MaxSchedBatch, iv \in IntervalInputs,
        start \in {-1} \cup TimesOfDay, c \in TimesOfDay :
        ScheduleBatch(H, n, iv, start, c)
  \/ SchedAppend
  \/ SchedSkip
  \/ SchedReturn

SchedSpec == Init /\ [][SchedNext]_vars

\* The scheduler with its control flow running on: schedule_batch is
\* sequential code, so an enabled loop step or return is eventually taken.
SchedFairSpec ==
  /\ SchedSpec
  /\ WF_vars(SchedAppend)
  /\ WF_vars(SchedSkip)
  /\ WF_vars(SchedReturn)

\* The match scorers, called with any arguments.  The scorers read nothing
\* that an earlier call wrote: one call is followed from the initial state.
InterestStrings == {<<"a">>, <<" ", "A", "b">>, <<"c">>}
InterestLists(n) == UNION {[1..k -> InterestStrings] : k \in 0..n}
UserInterests == {Absent} \cup {Present(l) : l \in InterestLists(MaxUserInterests)}
ProfInterests == {Absent} \cup {Present(l) : l \in InterestLists(MaxProfInterests)}
HIndexInputs == {0, 15, 30, 50}
CitationInputs == {0, 1000, 5000, 10000}
PublicationCounts == {0, 2, 5, 10}
Professors ==
  [research_interests : ProfInterests, h_index : HIndexInputs,
   total_citations : CitationInputs, recent_publications : PublicationCounts,
   accepting_students : BOOLEAN]
ScoreInputs == {-5, 0, 85, 100, 150}
EngineResponses ==
  [kind : {"raise", "empty", "invalid_json", "json_array", "json_no_score",
           "json_bad_score"}, score : {0}]
    \cup [kind : {"json_score"}, score : ScoreInputs]
ResearchResponses ==
  [kind : {"raise", "text_bad_score", "text_no_score"}, score : {0}]
    \cup [kind : {"text_score"}, score : ScoreInputs]
\* Candidate lists of rank_professors: distinct ids in any order
RankInterests == {Absent, Present(<<>>), Present(<<<<"a">>>>), Present(<<<<"c">>>>)}
RankResponses ==
  [kind : {"raise", "empty", "json_array"}, score : {0}]
    \cup [kind : {"json_score"}, score : {85}]
CandidateLists ==
  {l \in UNION {[1..k -> [id : 1..MaxCandidates,
                          research_interests : RankInterests]] :
                  k \in 0..MaxCandidates} :
     \A i, j \in DOMAIN l : i # j => l[i].id # l[j].id}
ResponseLists == UNION {[1..k -> RankResponses] : k \in 0..MaxCandidates}
RankUser == Present(<<<<"a">>>>)

\* A caller scores one professor row: Professor.calculate_match_score
ProfessorMatch ==
  /\ match.op = "none"
  /\ \E prof \in Professors, user_interests \in UserInterests :
       match' = [op |-> "professor", prof |-> prof, user |-> user_interests,
                 score |-> professor_points(prof, user_interests) * ScoreUnit]
  /\ UNCHANGED <<batches, emails, nextBatchId, nextEmailId, task, transport,
                 now, sched, reply>>

\* A caller asks the engine for one score: calculate_match_score
EngineMatch ==
  /\ match.op = "none"
  /\ \E user_interests \in UserInterests, professor_interests \in ProfInterests,
        response \in EngineResponses :
       match' = [op |-> "engine", user |-> user_interests,
                 prof |-> professor_interests, response |-> response,
                 result |-> calculate_match_score(user_interests,
                              professor_interests, response)]
  /\ UNCHANGED <<batches, emails, nextBatchId, nextEmailId, task, transport,
                 now, sched, reply>>

\* A caller asks the AI service for one score: calculate_research_match
ResearchMatch ==
  /\ match.op = "none"
  /\ \E professor_interests \in ProfInterests, user_interests \in UserInterests,
        response \in ResearchResponses :
       match' = [op |-> "research", user |-> user_interests,
                 prof |-> professor_interests, response |-> response,
                 score |-> calculate_research_match(professor_interests,
                             user_interests, response) * ScoreUnit]
  /\ UNCHANGED <<batches, emails, nextBatchId, nextEmailId, task, transport,
                 now, sched, reply>>

\* A caller ranks a list of candidates: rank_professors
RankProfessors ==
  /\ match.op = "none"
  /\ \E professors \in CandidateLists, responses \in ResponseLists :
       /\ Len(responses) = Len(professors)
       /\ match' = [op |-> "rank", user |-> RankUser,
                    professors |-> professors, responses |-> responses,
                    ranked |-> rank_professors(RankUser, professors,
                                               responses)]
  /\ UNCHANGED <<batches, emails, nextBatchId, nextEmailId, task, transport,
                 now, sched, reply>>

MatchNext ==
  \/ ProfessorMatch
  \/ EngineMatch
  \/ ResearchMatch
  \/ RankProfessors

MatchSpec == Init /\ [][MatchNext]_vars

\* ------------------------------------------------------------ properties
\* Statuses after which the pipeline has nothing left to do for a message.
Terminal == {"sent", "delivered", "failed", "bounced", "cancelled"}

\* The workers that are between smtp.send_email and the mark for email e.
InFlight(e) ==
  {w \in Workers : task[w].pc = "mark" /\ Head(task[w].emails) = e}

\* The workers that have handed email e to the transport.
Senders(e) == {transport[e][k].worker : k \in DOMAIN transport[e]}

\* C1: no message is handed to the transport by more than one worker, and
\* at most one worker at a time is in the middle of sending a given message.
C1_ExclusiveClaim ==
  \A e \in 1..MaxEmails :
    /\ Cardinality(Senders(e)) <= 1
    /\ Cardinality(InFlight(e)) <= 1

\* C2: for every batch, total_count is the number of messages that belong
\* to the batch.
C2_TotalIsMessageCount ==
  \A b \in DOMAIN batches :
    batches[b].total_count = Cardinality(BatchEmails(b))

\* The per-status counters of batch b agree with its messages.
CountersMatch(b) ==
  b \in DOMAIN batches =>
    /\ batches[b].draft_count = CountIn(b, {"draft"})
    /\ batches[b].approved_count = CountIn(b, {"approved"})
    /\ batches[b].sent_count = CountIn(b, {"sent"})
    /\ batches[b].failed_count = CountIn(b, {"failed"})

\* C3: after approve_batch, mark_email_sent and mark_email_failed, each of
\* draft_count, approved_count, sent_count and failed_count of the batch
\* equals the number of the batch's messages in that status.
C3_CountersFollowTransitions ==
  [][/\ \A b \in 1..MaxBatches : ApproveBatch(b) => CountersMatch(b)'
     /\ \A w \in Workers :
          (TaskMark(w) /\ Head(task[w].emails) \in DOMAIN emails)
            => CountersMatch(emails[Head(task[w].emails)].batch_id)']_vars

\* The lifecycle of a message: the status changes that the design allows.
TransitionTable ==
  {<<"draft", "pending_approval">>, <<"draft", "approved">>,
   <<"pending_approval", "approved">>, <<"approved", "scheduled">>,
   <<"scheduled", "sending">>, <<"sending", "sent">>,
   <<"sending", "failed">>, <<"sending", "bounced">>,
   <<"sending", "scheduled">>, <<"sent", "delivered">>,
   <<"delivered", "opened">>, <<"opened", "replied">>}
  \cup {<<s, "cancelled">> : s \in EmailStatus \ Terminal}

\* C4: a status transition that is not in the lifecycle table leaves the
\* message as it was (status, timestamps, retry_count and history).
C4_InvalidTransitionRejected ==
  [][\A e \in DOMAIN emails \cap DOMAIN emails' :
       emails'[e] # emails[e] =>
         <<emails[e].status, emails'[e].status>> \in TransitionTable]_vars

\* The number of send times of ts in the 60 minutes that start at ts[i].
InWindow(ts, i) ==
  Cardinality({j \in DOMAIN ts : ts[i] <= ts[j] /\ ts[j] < ts[i] + 60})

\* C5: the send times produced for a batch with send_rate H never place
\* more than H messages in a rolling 60-minute window.
C5_RateLimitLaw ==
  sched.send_rate > 0 =>
    \A i \in DOMAIN sched.scheduled_times :
      InWindow(sched.scheduled_times, i) <= sched.send_rate

\* C6: every hand-over of a message to the transport happens at or after
\* the message's scheduled_time.
C6_NeverBeforeScheduledTime ==
  \A e \in 1..MaxEmails : \A k \in DOMAIN transport[e] :
    transport[e][k].at >= transport[e][k].scheduled_time

\* C7: a message that has failed is attempted again only while it is not
\* terminal and within max_retries, with a scheduled_time strictly later
\* than that of the attempt before.
C7_RetryLaw ==
  [][\A e \in DOMAIN emails :
       (Len(transport'[e]) > Len(transport[e]) /\ emails[e].retry_count > 0)
         => /\ emails[e].status \notin Terminal
            /\ emails[e].retry_count <= emails[e].max_retries
            /\ emails[e].scheduled_time >
                 transport[e][Len(transport[e])].scheduled_time]_vars

\* C8: a batch all of whose messages are terminal is completed, whatever
\* the mix of outcomes.
C8_CompletedWhenAllTerminal ==
  \A b \in DOMAIN batches :
    (/\ BatchEmails(b) # {}
     /\ batches[b].status # "cancelled"
     /\ \A e \in BatchEmails(b) : emails[e].status \in Terminal)
      => batches[b].status = "completed"

\* C9: cancelling a batch leaves none of its messages approved or
\* scheduled, and no message of a cancelled batch is handed to the
\* transport any more.
C9_CancelStopsDelivery ==
  [][\A b \in DOMAIN batches :
       batches'[b].status = "cancelled" =>
         \A e \in BatchEmails(b) :
           /\ emails'[e].status \notin {"approved", "scheduled"}
           /\ batches[b].status = "cancelled" => transport'[e] = transport[e]]_vars

\* C10: scheduling a message that is already scheduled, sending or
\* terminal changes neither its scheduled_time nor its status nor its
\* history.
C10_ScheduleIdempotent ==
  [][\A e \in DOMAIN emails, t \in SchedTimes :
       (Schedule(e, t) /\ emails[e].status \in {"scheduled", "sending"} \cup Terminal)
         => emails'[e] = emails[e]]_vars

\* t is a time of day inside the business-hours window 09:00-17:00.
InBusinessHours(t) ==
  9 * 60 <= t % MinutesPerDay /\ t % MinutesPerDay <= 17 * 60

\* C11: every send time that schedule_email or schedule_batch produces,
\* the first element of a batch with a caller-supplied start_time
\* included, lies inside 09:00-17:00 local time.
C11_InsideBusinessHours ==
  \A i \in DOMAIN sched.scheduled_times :
    InBusinessHours(sched.scheduled_times[i])

\* C12: after a successful approve_batch, every message of the batch that
\* was draft or pending_approval is approved, and every other message, of
\* this batch or of another one, keeps its status.
C12_ApproveBatchEffect ==
  [][\A b \in 1..MaxBatches :
       ApproveBatch(b) =>
         \A e \in DOMAIN emails :
           emails'[e].status =
             IF e \in BatchEmails(b)
                /\ emails[e].status \in {"draft", "pending_approval"}
             THEN "approved"
             ELSE emails[e].status]_vars

\* C13: a message whose first delivery attempt fails ends in failed with
\* retry_count 0, and is not handed to the transport again.
C13_PermanentFailureIsFinal ==
  [][/\ \A w \in Workers :
          (/\ TaskMark(w)
           /\ ~task[w].success
           /\ Head(task[w].emails) \in DOMAIN emails
           /\ Len(transport[Head(task[w].emails)]) = 1)
            => /\ emails'[Head(task[w].emails)].status = "failed"
               /\ emails'[Head(task[w].emails)].retry_count = 0
     /\ \A e \in DOMAIN emails :
          (/\ emails[e].status = "failed"
           /\ Len(transport[e]) = 1
           /\ ~transport[e][1].ok)
            => transport'[e] = transport[e]]_vars

\* The answers of the transport to the attempts for email e, in order.
Outcomes(e) == [k \in DOMAIN transport[e] |-> transport[e][k].ok]

\* C14: a message whose first two attempts fail and whose third attempt
\* succeeds ends, once its last attempt is recorded, in sent with
\* retry_count 2.
C14_TwoFailuresThenSent ==
  [][\A w \in Workers :
       (/\ TaskMark(w)
        /\ Head(task[w].emails) \in DOMAIN emails
        /\ Outcomes(Head(task[w].emails)) = <<FALSE, FALSE, TRUE>>
        /\ InFlight(Head(task[w].emails)) = {w})
         => /\ emails'[Head(task[w].emails)].status = "sent"
            /\ emails'[Head(task[w].emails)].retry_count = 2]_vars

\* C15: once a batch exists, the set of messages that belong to it and its
\* total_count never change.
C15_BatchMembershipFixed ==
  [][\A b \in DOMAIN batches \cap DOMAIN batches' :
       /\ BatchEmails(b)' = BatchEmails(b)
       /\ batches'[b].total_count = batches[b].total_count]_vars

\* s, in hundredths of a point, lies in [0, 100].
InScoreRange(s) == 0 <= s /\ s <= 100 * ScoreUnit

Missing(x) == ~x.present \/ x.items = <<>>

\* C17: when the recipient's or the requester's interest list is empty or
\* absent, each scorer returns score 0, whatever the other signals are.
C17_MissingInterestsScoreZero ==
  /\ (match.op = "professor"
       /\ (Missing(match.user) \/ Missing(match.prof.research_interests)))
       => match.score = 0
  /\ (match.op = "engine" /\ (Missing(match.user) \/ Missing(match.prof)))
       => (match.result.returned = "dict" /\ match.result.has_score
           /\ match.result.score = 0)
  /\ (match.op = "research" /\ (Missing(match.user) \/ Missing(match.prof)))
       => match.score = 0

\* The ids of a sequence of candidates, in order.
Ids(s) == [k \in DOMAIN s |-> s[k].id]

\* C18: rank_professors returns a permutation of its input ordered by
\* match score descending, equal scores by recipient identifier ascending.
C18_RankingDeterministic ==
  match.op = "rank" =>
    /\ Len(match.ranked) = Len(match.professors)
    /\ {match.ranked[k].id : k \in DOMAIN match.ranked}
         = {match.professors[k].id : k \in DOMAIN match.professors}
    /\ \A i, j \in DOMAIN match.ranked :
         i < j =>
           \/ match.ranked[i].match_score > match.ranked[j].match_score
           \/ /\ match.ranked[i].match_score = match.ranked[j].match_score
              /\ match.ranked[i].id < match.ranked[j].id

\* The statuses of a message that has been approved.
ApprovedOrLater ==
  {"approved", "scheduled", "sending", "sent", "delivered", "opened",
   "replied", "failed", "bounced"}

\* C19: no operation changes the content (subject and body) of a message
\* whose status is approved or later.
C19_ContentFrozenOnceApproved ==
  [][\A e \in DOMAIN emails \cap DOMAIN emails' :
       emails[e].status \in ApprovedOrLater
         => emails'[e].body = emails[e].body]_vars

\* C20: every message with a batch reference points to an existing batch,
\* and a message is destroyed only together with its batch.
C20_MessagesLiveWithBatch ==
  [][/\ \A e \in DOMAIN emails' :
          emails'[e].batch_id # None => emails'[e].batch_id \in DOMAIN batches'
     /\ \A e \in DOMAIN emails \ DOMAIN emails' :
          emails[e].batch_id \in DOMAIN batches \ DOMAIN batches']_vars

\* C21: no message stays in sending forever: every message that enters
\* sending eventually leaves it.
C21_SendingEventuallyLeft ==
  \A e \in 1..MaxEmails :
    (e \in DOMAIN emails /\ emails[e].status = "sending")
      ~> (e \notin DOMAIN emails \/ emails[e].status # "sending")

\* C22: approve_batch, mark_email_sent and mark_email_failed addressed to
\* an unknown id return False and leave every batch and every message
\* unchanged.
C22_UnknownIdRejected ==
  [][/\ \A b \in 1..MaxBatches :
          (CallApproveBatch(b) /\ b \notin DOMAIN batches)
            => (~reply'.result /\ UNCHANGED <<batches, emails>>)
     /\ \A e \in 1..MaxEmails :
          ((CallMarkEmailSent(e) \/ CallMarkEmailFailed(e))
             /\ e \notin DOMAIN emails)
            => (~reply'.result /\ UNCHANGED <<batches, emails>>)]_vars

\* A mark addressed to an unknown message id has returned False while
\* batches and messages exist.
C22_Witness ==
  /\ reply.op \in {"mark_email_sent", "mark_email_failed"}
  /\ reply.id \notin DOMAIN emails
  /\ ~reply.result
  /\ emails # <<>>
  /\ batches # <<>>

\* C23: in every reachable state the retry_count of a message is at most
\* its max_retries.
C23_RetryCountBounded ==
  \A e \in DOMAIN emails : emails[e].retry_count <= emails[e].max_retries

\* C24: every status change of a message appends exactly one record
\* (from, to, timestamp) to its status history, no step changes or removes
\* an earlier record, and the last record's `to` is the current status.
C24_HistoryAppendOnly ==
  [][\A e \in DOMAIN emails \cap DOMAIN emails' :
       LET h == emails[e].status_history
           g == emails'[e].status_history
       IN /\ Len(g) >= Len(h)
          /\ SubSeq(g, 1, Len(h)) = h
          /\ emails'[e].status # emails[e].status
               => /\ Len(g) = Len(h) + 1
                  /\ g[Len(g)].from_status = emails[e].status
                  /\ g[Len(g)].to_status = emails'[e].status
          /\ g # <<>> => g[Len(g)].to_status = emails'[e].status]_vars

\* C25: every message whose status is 'sent' has sent_at set, and sent_at
\* is set or changed only by a step that moves the message into 'sent'.
C25_SentAtStampedOnSent ==
  [][\A e \in DOMAIN emails' :
       /\ emails'[e].status = "sent" => emails'[e].sent_at # None
       /\ (e \in DOMAIN emails /\ emails'[e].sent_at # emails[e].sent_at)
            => (emails'[e].status = "sent" /\ emails[e].status # "sent")]_vars

\* the earliest 09:00 at or after t
NextOpening(t) ==
  IF t % MinutesPerDay <= 9 * 60 THEN AtHour(t, 9) ELSE AtHour(t + MinutesPerDay, 9)

\* C26: a candidate send time outside the window is moved to the earliest
\* 09:00 at or after it, by schedule_email (no preferred hour) and by the
\* skip loop of schedule_batch.
C26_RollsToNextOpening ==
  [][/\ \A c \in TimesOfDay :
          (ScheduleEmail(c, -1) /\ Hour(c) \notin OPTIMAL_HOURS)
            => sched'.scheduled_times = <<NextOpening(c)>>
     /\ (sched.pc = "skip" /\ sched'.pc = "loop"
          /\ Hour(sched.candidate) \notin OPTIMAL_HOURS)
            => sched.current_time = NextOpening(sched.candidate)]_vars

\* C27: each send time returned by schedule_batch is at least
\* interval_minutes later than the one before it.
C27_IntervalSpacing ==
  \A i \in 2..Len(sched.scheduled_times) :
    sched.scheduled_times[i] >= sched.scheduled_times[i - 1] + sched.interval_minutes

\* a returned batch of at least two times with a positive interval, where a
\* day was skipped between the first two
C27_Witness ==
  /\ sched.pc = "done"
  /\ sched.batch_size >= 2
  /\ Len(sched.scheduled_times) = sched.batch_size
  /\ sched.interval_minutes > 0
  /\ sched.scheduled_times[2] > sched.scheduled_times[1] + sched.interval_minutes

\* C28: a completed batch has every message in a terminal status, and
\* sent_count never exceeds total_count.
C28_CompletedMeansAllTerminal ==
  \A b \in DOMAIN batches :
    /\ batches[b].status = "completed"
         => \A e \in BatchEmails(b) : emails[e].status \in Terminal
    /\ batches[b].sent_count <= batches[b].total_count

\* the messages for which this step makes a transport call
Handed == {e \in DOMAIN transport : transport'[e] # transport[e]}

\* the delivery task selects only messages that are 'approved' in the batch
\* it was started for, and calls the transport only for the next message of
\* a worker's selection
SelectsOnlyApproved ==
  /\ \A w \in Workers :
       (task[w].pc = "idle" /\ task'[w].pc = "send")
         => \E b \in 1..MaxBatches :
              \A i \in 1..Len(task'[w].emails) :
                 /\ task'[w].emails[i] \in DOMAIN emails
                 /\ emails[task'[w].emails[i]].status = "approved"
                 /\ emails[task'[w].emails[i]].batch_id = b
  /\ \A w \in Workers :
       task[w].pc # "idle"
         => \A i \in 1..Len(task'[w].emails) :
              \E j \in 1..Len(task[w].emails) : task'[w].emails[i] = task[w].emails[j]
  /\ \A e \in Handed :
       \E w \in Workers : task[w].pc = "send" /\ Head(task[w].emails) = e

\* C29 as stated: the task sends only messages that were 'approved' when
\* it selected them, so no transport call is made for a message of a batch
\* that approve_batch never approved.
C29_OnlyApprovedBatchesSent ==
  [][/\ SelectsOnlyApproved
     /\ \A e \in Handed \cap DOMAIN emails :
          HasBatch(e) => batches[emails[e].batch_id].status # "draft"]_vars

\* C29, amended: the task sends only messages that were 'approved' when it
\* selected them, whether they were approved by approve_batch or one by one.
C29_OnlyApprovedMessagesSent == [][SelectsOnlyApproved]_vars

\* a transport call was made for a message of a batch that is still 'draft'
C29_Witness ==
  \E e \in DOMAIN emails :
    /\ transport[e] # <<>>
    /\ HasBatch(e)
    /\ batches[emails[e].batch_id].status = "draft"

\* C30: every call of schedule_batch returns, with exactly batch_size send
\* times, and the loop that skips non-business hours makes at most one jump
\* per candidate.
C30_ScheduleBatchTerminates ==
  /\ [](sched.jumps <= 1)
  /\ [](sched.pc \in {"loop", "skip"}
          => /\ Len(sched.scheduled_times) = sched.i
             /\ sched.i <= sched.batch_size)
  /\ [][SchedReturn => Len(sched'.scheduled_times) = sched'.batch_size]_vars
  /\ (sched.pc \in {"loop", "skip"}) ~> (sched.pc = "done")

\* a call for the largest batch has returned, the last candidate having
\* been moved to the next day
C30_Witness ==
  /\ sched.pc = "done"
  /\ sched.batch_size = MaxSchedBatch
  /\ sched.i = sched.batch_size
  /\ Len(sched.scheduled_times) = sched.batch_size
  /\ sched.jumps = 1
====
